---------------------------- MODULE Spec2Model ----------------------------
(***************************************************************************)
(* Instant Analogy Generator backend: the user registry (auth.py), the     *)
(* token service (utils.py), the request authenticator and the history /   *)
(* generate / quiz handlers (main.py) over the two document collections    *)
(* (database.py).                                                          *)
(*                                                                         *)
(* Time is counted in ticks of 1/TicksPerSecond second, so that the        *)
(* whole-second truncation of the JWT time claims is visible.              *)
(***************************************************************************)
EXTENDS Integers, Sequences, FiniteSets, TLC

\* ------------------------------------------------------------------ bounds
\* MaxHistory bounds the entries the history collection holds and has ever held
TicksPerSecond == 2
\* ticks the clock may drift away from 0 and from one full token lifetime
MaxDrift == 2
MaxUsers == 2
MaxTokens == 2
MaxHistory == 3

\* ------------------------------------------------------- program constants
ACCESS_TOKEN_EXPIRE_MINUTES == 60
PASSWORD_MIN_LENGTH == 8

SECRET_KEY == "your_super_secret_key"

VARIABLES
    users,      \* users_collection: documents in natural (insertion) order
    history,    \* history_collection: documents in natural (insertion) order
    nextId,     \* the next ObjectId the history collection hands out
    pend,       \* per connection: the signup suspended between find_one and insert_one
    issued,     \* the bearer tokens /login has handed to clients
    now,        \* the wall clock, in ticks
    resp,       \* the response (or internal step) of the last handler step
    script      \* the end-to-end client: its position, the token and entry id it
                \* holds, and the answers it has got (pc "off" when it is not run)

vars == <<users, history, nextId, pend, issued, now, resp, script>>

\* ------------------------------------------------------------ Python values
\* None
NoneVal == [none |-> TRUE]
\* False, as authenticate_user returns it
FalseVal == [false |-> TRUE]

Range(seq) == {seq[i] : i \in 1..Len(seq)}

\* ------------------------------------------------------------- utils.py
\* passlib's bcrypt context: a salted one-way hash; the model keeps the
\* password inside an opaque record that only verify_password opens.
\* hash_password keeping the password as it came
hash_password_plain(password) == [scheme |-> "plain", digest |-> password]

hash_password(password) == [scheme |-> "bcrypt", digest |-> password]

verify_password(plain_password, stored_password) ==
    stored_password.scheme = "bcrypt" /\ stored_password.digest = plain_password

\* datetime -> NumericDate: jose keeps the whole seconds (timegm(utctimetuple())).
ToSeconds(t) == t \div TicksPerSecond

TTL == ACCESS_TOKEN_EXPIRE_MINUTES * 60 * TicksPerSecond

\* HS256 over the claims with the given key.
Sign(claims, key) == [key |-> key, over |-> claims]

jwt_encode(claims, key) == [fmt |-> "jws", claims |-> claims, sig |-> Sign(claims, key)]

\* create_access_token(data) with the default expires_delta, called at time t.
create_access_token(data, t) ==
    LET expire == t + TTL
        to_encode == [k \in DOMAIN data \cup {"exp"} |->
                         IF k = "exp" THEN ToSeconds(expire) ELSE data[k]]
    IN  jwt_encode(to_encode, SECRET_KEY)

\* jwt.decode with the expiry left unchecked
jwt_decode_raises_no_exp(token, key, t) ==
    \/ token.fmt # "jws"
    \/ token.sig # Sign(token.claims, key)

\* jwt.decode: JWSError (segments, signature) and ExpiredSignatureError are JWTErrors.
jwt_decode_raises(token, key, t) ==
    \/ token.fmt # "jws"
    \/ token.sig # Sign(token.claims, key)
    \/ ("exp" \in DOMAIN token.claims /\ token.claims.exp < ToSeconds(t))

decode_access_token(token, t) ==
    IF jwt_decode_raises(token, SECRET_KEY, t) THEN NoneVal ELSE token.claims

\* ------------------------------------------------------------- auth.py
Digits == {"0", "1", "2", "3", "4", "5", "6", "7", "8", "9"}
Lowers == {"a", "b", "c", "d", "e", "f", "g", "h", "i", "j", "k", "l", "m",
           "n", "o", "p", "q", "r", "s", "t", "u", "v", "w", "x", "y", "z"}
Uppers == {"A", "B", "C", "D", "E", "F", "G", "H", "I", "J", "K", "L", "M",
           "N", "O", "P", "Q", "R", "S", "T", "U", "V", "W", "X", "Y", "Z"}
Specials == {"@", "#", "$", "%", "^", "&", "+", "=", "!"}

\* (?=.*[class]) at position 0: '.' matches any character but a newline.
Lookahead(password, class) ==
    \E i \in 1..Len(password) :
        /\ password[i] \in class
        /\ \A j \in 1..(i - 1) : password[j] # "\n"

\* .{8,}$ at position 0: '$' matches at the end and before a final newline.
DotsToEnd(password) ==
    \E n \in PASSWORD_MIN_LENGTH..Len(password) :
        /\ \A j \in 1..n : password[j] # "\n"
        /\ \/ n = Len(password)
           \/ n = Len(password) - 1 /\ password[Len(password)] = "\n"

\* re.match(pattern, password) is not None
PatternMatches(password) ==
    /\ Lookahead(password, Digits)
    /\ Lookahead(password, Lowers)
    /\ Lookahead(password, Uppers)
    /\ Lookahead(password, Specials)
    /\ DotsToEnd(password)

\* validate_password raises HTTPException(400) exactly when this is FALSE
validate_password(password) == PatternMatches(password)

\* users_collection.find_one({"email": email}): the first match in natural order
find_one(coll, email) ==
    IF \E i \in 1..Len(coll) : coll[i].email = email
    THEN coll[CHOOSE i \in 1..Len(coll) :
                 /\ coll[i].email = email
                 /\ \A j \in 1..(i - 1) : coll[j].email # email]
    ELSE NoneVal

\* authenticate_user without the password check
authenticate_user_unverified(coll, email, password) ==
    LET user == find_one(coll, email)
    IN  IF user = NoneVal THEN FalseVal ELSE user

authenticate_user(coll, email, password) ==
    LET user == find_one(coll, email)
    IN  IF user = NoneVal THEN FalseVal
        ELSE IF ~verify_password(password, user.hashed_password) THEN FalseVal
        ELSE user

\* ------------------------------------------------------------- main.py
\* str.strip(): the sequence without its leading and trailing blank elements
\* (characters of a string, or the lines of a text: blank lines are white space).
RECURSIVE LStrip(_, _)
LStrip(seq, blanks) ==
    IF seq # <<>> /\ Head(seq) \in blanks THEN LStrip(Tail(seq), blanks) ELSE seq

RECURSIVE RStrip(_, _)
RStrip(seq, blanks) ==
    IF seq # <<>> /\ seq[Len(seq)] \in blanks
    THEN RStrip(SubSeq(seq, 1, Len(seq) - 1), blanks) ELSE seq

Strip(seq, blanks) == RStrip(LStrip(seq, blanks), blanks)

WhiteChars == {" ", "\t", "\n"}
BlankLines == {""}

\* An Authorization header is the list of its words, authorization.split(" ");
\* a request without the header carries Absent.
Absent == <<"<no Authorization header>">>

\* authorization.startswith("Bearer ")
StartsWithBearer(authorization) ==
    Len(authorization) >= 2 /\ authorization[1] = "Bearer"

Unauthorized == [error |-> 401, detail |-> "Invalid token"]
\* Header(...) is a required parameter: FastAPI answers a request without it
\* 422 before the dependency's body runs.
MissingHeader == [error |-> 422, detail |-> "Field required"]

\* get_current_user: the payload, or the error the request is answered with
get_current_user(authorization, t) ==
    IF authorization = Absent THEN MissingHeader
    ELSE IF ~StartsWithBearer(authorization) THEN Unauthorized
    ELSE LET token == authorization[2]
             payload == decode_access_token(token, t)
         IN  IF payload = NoneVal \/ "email" \notin DOMAIN payload
             THEN Unauthorized
             ELSE payload

IsError(r) == "error" \in DOMAIN r

\* --- the LLM's replies: a text is the list of its lines ---
JObj(v) == [t |-> "object", v |-> v]
JArr(v) == [t |-> "array", v |-> v]
ParseError == [t |-> "JSONDecodeError", v |-> <<>>]

AnalogyLine == "{\"tagline\":\"T\",\"analogy\":\"A\",\"mapping\":[],\"limitations\":[\"L\"]}"
PartialLine == "{\"analogy\":\"A\"}"
QuizLine == "{\"concept\":\"c\",\"questions\":[\"Q1\"]}"
ArrayLine == "[]"
ProseLine == "Sure! Here is your answer."
\* three backquotes and a language tag (the backquote is no character of a TLA+ string)
FenceJson == "<3 backquotes>json"
Fence == "<3 backquotes>"

\* the JSON document a line holds, if it holds one
JsonOfLine(line) ==
    CASE line = AnalogyLine ->
            JObj([tagline |-> <<"T">>, analogy |-> <<"A">>, mapping |-> <<>>,
                  limitations |-> <<"L">>])
      [] line = PartialLine -> JObj([analogy |-> <<"A">>])
      [] line = QuizLine -> JObj([concept |-> <<"c">>, questions |-> <<"Q1">>])
      [] line = ArrayLine -> JArr(<<>>)
      [] OTHER -> ParseError

\* json.loads(text): white space around the one document is skipped
json_loads(text) ==
    LET body == SelectSeq(text, LAMBDA l : l \notin BlankLines)
    IN  IF Len(body) = 1 THEN JsonOfLine(body[1]) ELSE ParseError

\* text.startswith of three backquotes
StartsWithFence(text) == text # <<>> /\ text[1] \in {Fence, FenceJson}

\* main.py 118-122, 163-167, 264-268: strip, then drop a fence's first and last line
Unfence(content) ==
    LET text == Strip(content, BlankLines)
    IN  IF StartsWithFence(text) /\ Len(text) >= 3
        THEN SubSeq(text, 2, Len(text) - 1)
        ELSE text

\* dict.setdefault for the four keys (main.py 126-129)
AnalogyDefaults == [tagline |-> <<>>, analogy |-> <<>>, mapping |-> <<>>, limitations |-> <<>>]

SetDefaults(d) ==
    [k \in DOMAIN d \cup DOMAIN AnalogyDefaults |->
        IF k \in DOMAIN d THEN d[k] ELSE AnalogyDefaults[k]]

\* main.py 118-136: a non-object document has no setdefault (AttributeError),
\* which the same except clause catches.
ParseAnalogy(content) ==
    LET ai_text == Unfence(content)
        parsed == json_loads(ai_text)
    IN  IF parsed.t = "object" THEN SetDefaults(parsed.v)
        ELSE [tagline |-> <<>>, analogy |-> ai_text, mapping |-> <<>>, limitations |-> <<>>]

\* main.py 163-172
ParseQuizGenerate(content, concept) ==
    LET quiz_text == Unfence(content)
        parsed == json_loads(quiz_text)
    IN  IF parsed = ParseError
        THEN JObj([concept |-> concept, questions |-> <<>>])
        ELSE parsed

\* main.py 264-271: json.loads outside any inner try; ParseError stands for the raise
ParseQuizRoute(content) == json_loads(Unfence(content))

\* client.chat.completions.create raised (network, quota, ...)
LlmDown == <<"<raised>">>

\* ObjectId strings: str(ObjectId) is 24 hex digits; anything else is refused
IdStr(n) == [hex |-> n]
BadIdStr == [text |-> "not-an-id"]
ObjectIdRaises(entry_id) == "hex" \notin DOMAIN entry_id
ObjectId(entry_id) == entry_id.hex

\* ------------------------------------------------------------ responses
\* What the last handler step answered: the route, the status code and detail,
\* the Authorization header and the input of the request, the response body,
\* and the replies the LLM gave to the calls the handler made.
Response(op, status, detail, hdr, arg, body, llm) ==
    [op |-> op, status |-> status, detail |-> detail, hdr |-> hdr, arg |-> arg,
     body |-> body, llm |-> llm]

NoUser == [username |-> "", email |-> "", password |-> <<>>]

PolicyDetail == "Password must be >=8 chars, include 1 uppercase, 1 lowercase, 1 number, 1 special character (@#$%^&+=!)"

\* ---------------------------------------------------------------- inputs
ScriptOff == [pc |-> "off", token |-> NoneVal, entry |-> NoneVal, log |-> <<>>]

Emails == {"a@x.com", "b@x.com"}
Conns == {1, 2}

\* the spec's example password
PwAbc == <<"A", "b", "c", "1", "2", "3", "!", "@">>
\* a second password that meets every rule
PwXyz == <<"X", "y", "z", "7", "8", "9", "#", "$">>
\* too short and without an uppercase letter or a special character
PwWeak == <<"a", "b", "c", "1">>
\* ten characters with every class present, a line break among them
PwBreak == <<"A", "b", "c", "1", "\n", "2", "3", "!", "@", "x">>

Passwords == {PwAbc, PwXyz, PwWeak, PwBreak}

UserCreate(e, p) == [username |-> "alice", email |-> e, password |-> p]

\* ------------------------------------------------------------- actions
\* create_user up to the completion of find_one (auth.py 16-21)
SignupLookup(c, user) ==
    /\ pend[c] = NoUser
    /\ IF ~validate_password(user.password)
       THEN /\ resp' = Response("signup", 400, PolicyDetail, Absent, user, NoneVal, <<>>)
            /\ pend' = pend
       ELSE IF find_one(users, user.email) # NoneVal
       THEN /\ resp' = Response("signup", 400, "Email already registered", Absent, user,
                                NoneVal, <<>>)
            /\ pend' = pend
       ELSE /\ resp' = Response("signup_find", 0, "", Absent, user, NoneVal, <<>>)
            /\ pend' = [pend EXCEPT ![c] = user]
    /\ UNCHANGED <<users, history, nextId, issued, now>>

\* create_user from hash_password to the return (auth.py 23-26)
SignupInsert(c) ==
    /\ pend[c] # NoUser
    /\ Len(users) < MaxUsers
    /\ LET user == pend[c]
           hashed_pw == hash_password(user.password)
           user_doc == [username |-> user.username, email |-> user.email,
                        hashed_password |-> hashed_pw]
       IN  /\ users' = Append(users, user_doc)
           /\ resp' = Response("signup", 200, "User created successfully", Absent, user,
                               NoneVal, <<>>)
    /\ pend' = [pend EXCEPT ![c] = NoUser]
    /\ UNCHANGED <<history, nextId, issued, now>>

\* POST /login (main.py 73-79)
Login(e, p) ==
    LET auth_user == authenticate_user(users, e, p)
        access_token == create_access_token([email |-> auth_user.email], now)
    IN  /\ IF auth_user = FalseVal
           THEN /\ resp' = Response("login", 401, "Invalid credentials", Absent,
                                    [email |-> e, password |-> p], NoneVal, <<>>)
                /\ issued' = issued
           ELSE /\ Cardinality(issued \cup {access_token}) <= MaxTokens
                /\ resp' = Response("login", 200, "", Absent, [email |-> e, password |-> p],
                                    [access_token |-> access_token, token_type |-> "bearer"], <<>>)
                /\ issued' = issued \cup {access_token}
        /\ UNCHANGED <<users, history, nextId, pend, now>>

\* POST /generate (main.py 96-194); reply1 and reply2 are what the two LLM calls give
Generate(authorization, req, reply1, reply2) ==
    LET current_user == get_current_user(authorization, now)
        concept == Strip(req.concept, WhiteChars)
        level == req.level
        ai_json == ParseAnalogy(reply1)
        quiz_json == ParseQuizGenerate(reply2, concept)
        history_doc == [_id |-> nextId, user_email |-> current_user.email,
                        concept |-> concept, level |-> level, result |-> ai_json,
                        quiz |-> quiz_json, timestamp |-> now]
    IN  /\ IF IsError(current_user)
           THEN /\ resp' = Response("generate", current_user.error, current_user.detail,
                                    authorization, req, NoneVal, <<>>)
                /\ UNCHANGED <<history, nextId>>
           ELSE IF concept = <<>>
           \* the HTTPException(400) is raised inside the try and caught by
           \* "except Exception", which answers 500 with str(e)
           THEN /\ resp' = Response("generate", 500, "400: Concept must not be empty",
                                    authorization, req, NoneVal, <<>>)
                /\ UNCHANGED <<history, nextId>>
           ELSE IF reply1 = LlmDown
           THEN /\ resp' = Response("generate", 500, "llm error", authorization, req, NoneVal,
                                    <<reply1>>)
                /\ UNCHANGED <<history, nextId>>
           ELSE IF reply2 = LlmDown
           THEN /\ resp' = Response("generate", 500, "llm error", authorization, req, NoneVal,
                                    <<reply1, reply2>>)
                /\ UNCHANGED <<history, nextId>>
           ELSE /\ Len(history) < MaxHistory
                /\ nextId <= MaxHistory
                /\ history' = Append(history, history_doc)
                /\ nextId' = nextId + 1
                /\ resp' = Response("generate", 200, "", authorization, req,
                                    [concept_received |-> concept, level |-> level,
                                     user |-> current_user.email, result |-> ai_json,
                                     quiz |-> quiz_json], <<reply1, reply2>>)
        /\ UNCHANGED <<users, pend, issued, now>>

\* find({}) in place of the owner's filter
FindByOwner_all(coll, email) == coll

\* find({"user_email": email}): the matching documents in natural order
FindByOwner(coll, email) == SelectSeq(coll, LAMBDA d : d.user_email = email)

SortedNewestFirst(docs) ==
    \A i \in 1..(Len(docs) - 1) : docs[i].timestamp >= docs[i + 1].timestamp

\* .sort("timestamp", -1): every order of the documents that descends by timestamp
\* (the store fixes no order among equal timestamps)
SortDescending(docs) ==
    {s \in {[i \in 1..Len(docs) |-> docs[p[i]]] : p \in Permutations(1..Len(docs))} :
        SortedNewestFirst(s)}

\* doc["_id"] = str(doc["_id"])
WithIdStr(docs) == [i \in 1..Len(docs) |-> [docs[i] EXCEPT !._id = IdStr(docs[i]._id)]]

\* GET /history (main.py 199-206)
GetHistory(authorization) ==
    LET current_user == get_current_user(authorization, now)
    IN  /\ IF IsError(current_user)
           THEN resp' = Response("history", current_user.error, current_user.detail,
                                 authorization, NoneVal, NoneVal, <<>>)
           ELSE \E cursor \in SortDescending(FindByOwner(history, current_user.email)) :
                    resp' = Response("history", 200, "", authorization, NoneVal,
                                     [history |-> WithIdStr(cursor)], <<>>)
        /\ UNCHANGED <<users, history, nextId, pend, issued, now>>

\* delete_one({"_id": obj_id}): the owner left out of the filter
RECURSIVE DeleteOne_any_owner(_, _, _)
DeleteOne_any_owner(coll, id, email) ==
    IF coll = <<>> THEN <<>>
    ELSE IF Head(coll)._id = id THEN Tail(coll)
    ELSE <<Head(coll)>> \o DeleteOne_any_owner(Tail(coll), id, email)

\* delete_one(filter): the collection without its first matching document
RECURSIVE DeleteOne(_, _, _)
DeleteOne(coll, id, email) ==
    IF coll = <<>> THEN <<>>
    ELSE IF Head(coll)._id = id /\ Head(coll).user_email = email THEN Tail(coll)
    ELSE <<Head(coll)>> \o DeleteOne(Tail(coll), id, email)

\* DELETE /history/{entry_id} (main.py 211-226)
DeleteHistory(authorization, entry_id) ==
    LET current_user == get_current_user(authorization, now)
        obj_id == ObjectId(entry_id)
        after == DeleteOne(history, obj_id, current_user.email)
        deleted_count == Len(history) - Len(after)
    IN  /\ IF IsError(current_user)
           THEN /\ resp' = Response("delete", current_user.error, current_user.detail,
                                    authorization, entry_id, NoneVal, <<>>)
                /\ history' = history
           ELSE IF ObjectIdRaises(entry_id)
           THEN /\ resp' = Response("delete", 400, "Invalid entry ID", authorization,
                                    entry_id, NoneVal, <<>>)
                /\ history' = history
           ELSE IF deleted_count = 0
           THEN /\ resp' = Response("delete", 404, "Entry not found or unauthorized",
                                    authorization, entry_id, NoneVal, <<>>)
                /\ history' = after
           ELSE /\ resp' = Response("delete", 200, "History entry deleted", authorization,
                                    entry_id, NoneVal, <<>>)
                /\ history' = after
        /\ UNCHANGED <<users, nextId, pend, issued, now>>

\* POST /quiz (main.py 231-274)
Quiz(authorization, req, reply) ==
    LET current_user == get_current_user(authorization, now)
        concept == Strip(req.concept, WhiteChars)
        analogy_data == req.result
        quiz_json == ParseQuizRoute(reply)
    IN  /\ IF IsError(current_user)
           THEN resp' = Response("quiz", current_user.error, current_user.detail,
                                 authorization, req, NoneVal, <<>>)
           ELSE IF concept = <<>> \/ DOMAIN analogy_data = {}
           \* raised inside the try, caught by "except Exception"
           THEN resp' = Response("quiz", 500, "400: Concept and analogy result are required",
                                 authorization, req, NoneVal, <<>>)
           ELSE IF reply = LlmDown
           THEN resp' = Response("quiz", 500, "llm error", authorization, req, NoneVal, <<reply>>)
           ELSE IF quiz_json = ParseError
           THEN resp' = Response("quiz", 500, "JSONDecodeError", authorization, req, NoneVal,
                                 <<reply>>)
           ELSE resp' = Response("quiz", 200, "", authorization, req, quiz_json, <<reply>>)
        /\ UNCHANGED <<users, history, nextId, pend, issued, now>>

\* the clock: a tick, or a jump of one token lifetime
Tick(d) ==
    /\ now + d <= TTL + MaxDrift
    /\ (now + d <= MaxDrift \/ now + d >= TTL)
    /\ now' = now + d
    /\ resp' = Response("tick", 0, "", Absent, d, NoneVal, <<>>)
    /\ UNCHANGED <<users, history, nextId, pend, issued>>

\* ------------------------------------------------------- request inputs
\* a tampered signature segment
Tampered(token) == [token EXCEPT !.sig = [key |-> "?", over |-> token.claims]]
\* the payload rewritten to another identity under the old signature
Reclaimed(token, e) ==
    IF token.claims.email = e THEN Tampered(token)
    ELSE [token EXCEPT !.claims = [token.claims EXCEPT !.email = e]]
\* not three base64 segments; and the empty token of the header "Bearer "
Garbage == [fmt |-> "text", claims |-> [junk |-> 1], sig |-> [key |-> "", over |-> <<>>]]
Empty == [fmt |-> "text", claims |-> [junk |-> 0], sig |-> [key |-> "", over |-> <<>>]]
\* signed with the server's key, with a subject and no email claim
NoEmail == jwt_encode([sub |-> "a@x.com", exp |-> ToSeconds(2 * TTL)], SECRET_KEY)

\* what a client without the key can make of the tokens it has seen
Forgeries(tokens) ==
    {Tampered(t) : t \in tokens} \cup {Reclaimed(t, e) : t \in tokens, e \in Emails}
        \cup {Garbage, Empty}

TokensSeen(tokens) == tokens \cup Forgeries(tokens) \cup {NoEmail}

\* headers that cannot pass, whatever the time
BadHeaders(tokens) ==
    {Absent, <<"Bearer">>}
        \cup {<<"Bearer", t>> : t \in Forgeries(tokens) \cup {NoEmail}}
        \cup {<<"Basic", t>> : t \in tokens}

\* headers carrying a token of /login, expired or not
IssuedHeaders(tokens) == {<<"Bearer", t>> : t \in tokens}

Headers(tokens) == IssuedHeaders(tokens) \cup BadHeaders(tokens)

Recursion == <<"r", "e", "c", "u", "r", "s", "i", "o", "n">>
PaddedDns == <<" ", "d", "n", "s", "\n">>
Blank == <<" ", "\t">>

GenerateRequest(c) == [concept |-> c, level |-> "beginner"]
QuizRequest(c, r) == [concept |-> c, result |-> r]

Replies ==
    { <<AnalogyLine>>, <<QuizLine>>, <<PartialLine>>, <<ArrayLine>>, <<ProseLine>>,
      <<FenceJson, AnalogyLine, Fence>>, <<"", Fence, QuizLine, Fence, "">>,
      <<Fence, AnalogyLine>>, <<FenceJson, ProseLine, Fence>>,
      <<FenceJson, QuizLine, Fence, ProseLine>>, <<>> }

Init ==
    /\ users = <<>>
    /\ history = <<>>
    /\ nextId = 1
    /\ pend = [c \in Conns |-> NoUser]
    /\ issued = {}
    /\ now = 0
    /\ resp = Response("start", 0, "", Absent, NoneVal, NoneVal, <<>>)
    /\ script = ScriptOff

\* ------------------------------------------------- the user registry alone
NextAuth ==
    \/ \E c \in Conns, e \in Emails, p \in Passwords : SignupLookup(c, UserCreate(e, p))
    \/ \E c \in Conns : SignupInsert(c)
    \/ \E e \in Emails, p \in Passwords : Login(e, p)

SpecAuth == Init /\ [][NextAuth /\ UNCHANGED script]_vars

\* --------------------------------------------------- the token service
\* decode_access_token applied to a token a client presents
Verify(token) ==
    /\ resp' = Response("decode", 0, "", Absent, token, decode_access_token(token, now), <<>>)
    /\ UNCHANGED <<users, history, nextId, pend, issued, now>>

UserDoc(e, p) == [username |-> "alice", email |-> e, hashed_password |-> hash_password(p)]

\* both users have signed up, nobody has logged in
InitRegistered ==
    /\ users = <<UserDoc("a@x.com", PwAbc), UserDoc("b@x.com", PwXyz)>>
    /\ history = <<>>
    /\ nextId = 1
    /\ pend = [c \in Conns |-> NoUser]
    /\ issued = {}
    /\ now = 0
    /\ resp = Response("start", 0, "", Absent, NoneVal, NoneVal, <<>>)
    /\ script = ScriptOff

NextToken ==
    \/ \E e \in Emails, p \in {PwAbc, PwXyz} : Login(e, p)
    \/ \E t \in TokensSeen(issued) : Verify(t)
    \/ \E d \in {1, TTL} : Tick(d)

SpecToken == InitRegistered /\ [][NextToken /\ UNCHANGED script]_vars

\* ------------------------------------------------- the protected routes
EntryIds == {BadIdStr} \cup {IdStr(n) : n \in 1..(MaxHistory + 1)}

\* both users have signed up and have logged in at time 0
InitLoggedIn ==
    /\ users = <<UserDoc("a@x.com", PwAbc), UserDoc("b@x.com", PwXyz)>>
    /\ history = <<>>
    /\ nextId = 1
    /\ pend = [c \in Conns |-> NoUser]
    /\ issued = {create_access_token([email |-> e], 0) : e \in Emails}
    /\ now = 0
    /\ resp = Response("start", 0, "", Absent, NoneVal, NoneVal, <<>>)
    /\ script = ScriptOff

NextRoutes ==
    \/ \E h \in IssuedHeaders(issued), c \in {Recursion, Blank} :
           Generate(h, GenerateRequest(c), <<AnalogyLine>>, <<QuizLine>>)
    \/ \E h \in IssuedHeaders(issued) : GetHistory(h)
    \/ \E h \in IssuedHeaders(issued), id \in EntryIds : DeleteHistory(h, id)
    \/ \E h \in IssuedHeaders(issued) :
           Quiz(h, QuizRequest(Recursion, [analogy |-> <<"A">>]), <<QuizLine>>)
    \/ \E h \in BadHeaders(issued) :
           \/ Generate(h, GenerateRequest(Recursion), <<AnalogyLine>>, <<QuizLine>>)
           \/ GetHistory(h)
           \/ \E id \in {IdStr(n) : n \in 1..(nextId - 1)} : DeleteHistory(h, id)
           \/ Quiz(h, QuizRequest(Recursion, [analogy |-> <<"A">>]), <<QuizLine>>)
    \/ \E d \in {TicksPerSecond, TTL} : Tick(d)

SpecRoutes == InitLoggedIn /\ [][NextRoutes /\ UNCHANGED script]_vars

\* ------------------------------------------------- the LLM's replies
AliceHeader == <<"Bearer", create_access_token([email |-> "a@x.com"], 0)>>

NextLlm ==
    \/ \E r \in Replies \cup {LlmDown} :
           \/ Generate(AliceHeader, GenerateRequest(PaddedDns), r, <<QuizLine>>)
           \/ Generate(AliceHeader, GenerateRequest(PaddedDns), <<AnalogyLine>>, r)
    \/ \E r \in Replies \cup {LlmDown}, d \in {[analogy |-> <<"A">>], [x \in {} |-> 0]} :
           Quiz(AliceHeader, QuizRequest(Recursion, d), r)

SpecLlm == InitLoggedIn /\ [][NextLlm /\ UNCHANGED script]_vars

\* ------------------------------------------- the end-to-end client script
Alice == "a@x.com"
Bob == "b@x.com"

\* what the script keeps of an answer: the step, the status, the number of
\* history entries it was shown, the time, and whether the request was one the
\* service can serve (a concept that is not blank, the LLM responding)
Logged(step, n, fit) ==
    Append(script.log, [op |-> step, status |-> resp'.status, n |-> n, at |-> now,
                        fit |-> fit])

AliceBearer == <<"Bearer", script.token>>

Shown == IF resp'.status = 200 THEN Len(resp'.body.history) ELSE 0

AliceStep ==
    \/ /\ script.pc = "signup"
       /\ SignupLookup(1, UserCreate(Alice, PwAbc))
       /\ script' = IF resp'.op = "signup_find"
                     THEN [script EXCEPT !.pc = "insert"]
                     ELSE [script EXCEPT !.pc = "login", !.log = Logged("signup", 0, TRUE)]
    \/ /\ script.pc = "insert"
       /\ SignupInsert(1)
       /\ script' = [script EXCEPT !.pc = "login", !.log = Logged("signup", 0, TRUE)]
    \/ /\ script.pc = "login"
       /\ Login(Alice, PwAbc)
       /\ script' = [script EXCEPT !.pc = "generate",
                                    !.token = IF resp'.status = 200
                                              THEN resp'.body.access_token ELSE Garbage,
                                    !.log = Logged("login", 0, TRUE)]
    \/ /\ script.pc = "generate"
       /\ \E c \in {Recursion, Blank},
             r \in {<<<<AnalogyLine>>, <<QuizLine>>>>, <<<<ProseLine>>, <<QuizLine>>>>,
                    <<LlmDown, <<QuizLine>>>>, <<<<AnalogyLine>>, LlmDown>>} :
              /\ Generate(AliceBearer, GenerateRequest(c), r[1], r[2])
              /\ script' = [script EXCEPT !.pc = "history",
                               !.log = Logged("generate", 0,
                                              c # Blank /\ LlmDown \notin {r[1], r[2]})]
    \/ /\ script.pc = "history"
       /\ GetHistory(AliceBearer)
       /\ script' = IF Shown > 0
                     THEN [script EXCEPT !.pc = "delete",
                                         !.entry = resp'.body.history[1]._id,
                                         !.log = Logged("history", Shown, TRUE)]
                     ELSE [script EXCEPT !.pc = "done",
                                         !.log = Logged("history", Shown, TRUE)]
    \/ /\ script.pc = "delete"
       /\ DeleteHistory(AliceBearer, script.entry)
       /\ script' = [script EXCEPT !.pc = "history2", !.log = Logged("delete", 0, TRUE)]
    \/ /\ script.pc = "history2"
       /\ GetHistory(AliceBearer)
       /\ script' = [script EXCEPT !.pc = "done", !.log = Logged("history2", Shown, TRUE)]

\* the headers another client can send: its own tokens, and these rewritten to Alice
BobHeaders ==
    LET own == {t \in issued : t.claims.email = Bob}
    IN  {<<"Bearer", t>> : t \in own} \cup {<<"Bearer", Reclaimed(t, Alice)>> : t \in own}

BobStep ==
    \/ SignupLookup(2, UserCreate(Bob, PwXyz))
    \/ SignupInsert(2)
    \/ Login(Bob, PwXyz)
    \/ \E h \in BobHeaders :
           \/ Generate(h, GenerateRequest(Recursion), <<AnalogyLine>>, <<QuizLine>>)
           \/ GetHistory(h)
           \/ \E n \in 1..(nextId - 1) : DeleteHistory(h, IdStr(n))

InitE2E ==
    /\ users = <<>>
    /\ history = <<>>
    /\ nextId = 1
    /\ pend = [c \in Conns |-> NoUser]
    /\ issued = {}
    /\ now = 0
    /\ resp = Response("start", 0, "", Absent, NoneVal, NoneVal, <<>>)
    /\ script = [ScriptOff EXCEPT !.pc = "signup"]

NextE2E ==
    \/ AliceStep
    \/ BobStep /\ UNCHANGED script
    \/ Tick(TTL + TicksPerSecond) /\ UNCHANGED script

SpecE2E == InitE2E /\ [][NextE2E]_vars

\* ====================================================================
\* Properties
\* ====================================================================

\* the user documents stored under an email
Registered(e) == {i \in 1..Len(users) : users[i].email = e}

\* C1: after any signups, concurrent ones included, at most one user document
\* exists per email, and a signup for a registered email is answered 400
\* "Email already registered".
C1_EmailUnique ==
    /\ \A e \in Emails : Cardinality(Registered(e)) <= 1
    /\ (resp.op = "signup" /\ resp.status = 200)
           => Cardinality(Registered(resp.arg.email)) = 1

\* the password rules as the error message states them
MeetsRules(password) ==
    /\ Len(password) >= 8
    /\ \E i \in 1..Len(password) : password[i] \in Digits
    /\ \E i \in 1..Len(password) : password[i] \in Lowers
    /\ \E i \in 1..Len(password) : password[i] \in Uppers
    /\ \E i \in 1..Len(password) : password[i] \in Specials

\* C7: a signup is answered with the policy error exactly when the password
\* breaks a rule (registered email or not), and a signup that succeeds has
\* stored the hash of a password that meets them, never the password.
C7_PolicyDecides ==
    resp.op \in {"signup", "signup_find"} =>
        /\ (resp.detail = PolicyDetail) <=> ~MeetsRules(resp.arg.password)
        /\ resp.status = 200 =>
               /\ MeetsRules(resp.arg.password)
               /\ users[Len(users)].email = resp.arg.email
               /\ users[Len(users)].hashed_password.scheme = "bcrypt"

\* the part of C7 that the pattern keeps: passwords of one line
C7_PolicyOnOneLine ==
    (resp.op \in {"signup", "signup_find"}
        /\ \A i \in 1..Len(resp.arg.password) : resp.arg.password[i] # "\n")
    => ((resp.detail = PolicyDetail) <=> ~MeetsRules(resp.arg.password))

\* C8: a login for an unknown email and one with a wrong password get the same
\* answer, 401 "Invalid credentials" without a token; neither changes the user
\* store; a token is issued only for a registered email whose stored hash
\* verifies the password, and it carries that email.
C8_LoginOutcome ==
    [][resp'.op = "login" =>
        LET e == resp'.arg.email
            p == resp'.arg.password
            matching == {i \in Registered(e) : users[i].hashed_password.digest = p}
        IN  /\ users' = users
            /\ resp'.status \in {200, 401}
            /\ resp'.status = 401 =>
                   /\ [resp' EXCEPT !.arg = NoneVal]
                          = Response("login", 401, "Invalid credentials", Absent, NoneVal,
                                     NoneVal, <<>>)
                   /\ issued' = issued
            /\ (Registered(e) = {} \/ matching = {}) => resp'.status = 401
            /\ resp'.status = 200 =>
                   /\ matching # {}
                   /\ resp'.body.access_token.claims.email = e
                   /\ issued' = issued \cup {resp'.body.access_token}
    ]_vars

\* a registered email was tried with a password its hash does not verify
C8_Witness ==
    /\ resp.op = "login"
    /\ resp.status = 401
    /\ Registered(resp.arg.email) # {}

\* --------------------------------------------------------- C3: tokens
\* the instant, in ticks, the token's exp claim names
ExpiryTick(token) == token.claims.exp * TicksPerSecond

\* C3 as stated: a token of /login decoded before its expiry gives its claims,
\* decoded after its expiry gives None, as does any tampered or malformed token.
C3_AsStated ==
    resp.op = "decode" =>
        /\ (resp.arg \in issued /\ now < ExpiryTick(resp.arg)) => resp.body = resp.arg.claims
        /\ (resp.arg \in issued /\ now > ExpiryTick(resp.arg)) => resp.body = NoneVal
        /\ resp.arg \in Forgeries(issued) => resp.body = NoneVal

\* C3, amended: the token carries the email and the whole second of its issue
\* plus 3600; decoded while the clock's whole second is at most exp it gives its
\* claims; from one second after exp on it gives None, as does any tampered or
\* malformed token at any time.
C3_TokenLifetime ==
    /\ (resp.op = "login" /\ resp.status = 200) =>
           resp.body.access_token.claims
               = [email |-> resp.arg.email, exp |-> (now \div TicksPerSecond) + 3600]
    /\ resp.op = "decode" =>
           /\ (resp.arg \in issued /\ now < ExpiryTick(resp.arg) + TicksPerSecond)
                  => resp.body = resp.arg.claims
           /\ (resp.arg \in issued /\ now >= ExpiryTick(resp.arg) + TicksPerSecond)
                  => resp.body = NoneVal
           /\ resp.arg \in Forgeries(issued) => resp.body = NoneVal

\* a token of /login is decoded more than a second after its expiry
C3_Witness ==
    /\ resp.op = "decode"
    /\ resp.arg \in issued
    /\ now >= ExpiryTick(resp.arg) + TicksPerSecond
    /\ resp.body = NoneVal

\* ------------------------------------------------ the protected routes
Protected == {"generate", "history", "delete", "quiz"}

\* the header is "Bearer " and a token /login issued that has not expired
ValidBearer(h) ==
    /\ Len(h) >= 2
    /\ h[1] = "Bearer"
    /\ h[2] \in issued
    /\ now \div TicksPerSecond <= h[2].claims.exp

\* the identity a valid bearer header carries
Bearer(h) == h[2].claims.email

\* C4 as stated: a protected route answers 401 to a request whose header is
\* absent, is not "Bearer ...", or carries a token that fails verification or
\* has no email; the handler does not run (no LLM call, history unchanged). A
\* request with a valid token is handled as that token's email.
C4_AsStated ==
    [][resp'.op \in Protected =>
        IF ValidBearer(resp'.hdr)
        THEN /\ resp'.status \notin {401, 422}
             /\ (resp'.op = "generate" /\ resp'.status = 200)
                    => resp'.body.user = Bearer(resp'.hdr)
        ELSE /\ resp'.status = 401
             /\ resp'.llm = <<>>
             /\ history' = history
    ]_vars

\* C4 with the missing header set apart: it is answered 422, every other bad
\* header 401, and in both cases the handler does not run.
C4_Rejected ==
    [][resp'.op \in Protected =>
        IF ValidBearer(resp'.hdr)
        THEN /\ resp'.status \notin {401, 422}
             /\ (resp'.op = "generate" /\ resp'.status = 200)
                    => resp'.body.user = Bearer(resp'.hdr)
        ELSE /\ resp'.status = (IF resp'.hdr = Absent THEN 422 ELSE 401)
             /\ resp'.llm = <<>>
             /\ history' = history
    ]_vars

\* C5 as stated: POST /generate with a valid token and a concept that is blank
\* is answered 400 "Concept must not be empty", with no LLM call and no
\* history entry written.
C5_AsStated ==
    [][(/\ resp'.op = "generate"
        /\ ValidBearer(resp'.hdr)
        /\ \A i \in 1..Len(resp'.arg.concept) : resp'.arg.concept[i] \in WhiteChars)
       => /\ resp'.status = 400
          /\ resp'.detail = "Concept must not be empty"
          /\ resp'.llm = <<>>
          /\ history' = history
    ]_vars

\* the positions of the entries with this id that this email owns
Owned(id, e) ==
    {i \in 1..Len(history) : history[i]._id = id /\ history[i].user_email = e}

\* seq without its i-th element
Without(seq, i) == SubSeq(seq, 1, i - 1) \o SubSeq(seq, i + 1, Len(seq))

\* C2: a delete removes the entry, answering 200, only when an entry with that
\* id exists and the caller's token email owns it; a caller who asks for a
\* well-formed id that is missing or is another user's gets the one 404
\* "Entry not found or unauthorized", and the history is left as it was.
C2_DeleteOwnOnly ==
    [][(resp'.op = "delete" /\ ValidBearer(resp'.hdr)) =>
        LET e == Bearer(resp'.hdr)
            id == resp'.arg
        IN  IF ObjectIdRaises(id)
            THEN resp'.status = 400 /\ history' = history
            ELSE IF Owned(id.hex, e) = {}
            THEN /\ resp' = Response("delete", 404, "Entry not found or unauthorized",
                                     resp'.hdr, id, NoneVal, <<>>)
                 /\ history' = history
            ELSE /\ resp'.status = 200
                 /\ \E i \in Owned(id.hex, e) : history' = Without(history, i)
    ]_vars

\* a caller was refused the deletion of an entry that exists and is another user's
C2_Witness ==
    /\ resp.op = "delete"
    /\ resp.status = 404
    /\ ValidBearer(resp.hdr)
    /\ \E i \in 1..Len(history) :
           /\ IdStr(history[i]._id) = resp.arg
           /\ history[i].user_email # Bearer(resp.hdr)

\* C10: GET /history answers a caller with exactly the entries its email owns,
\* each once, newest first by timestamp; an entry /generate writes is owned by
\* the email of the token that made the request.
C10_OwnHistoryNewestFirst ==
    /\ (resp.op = "history" /\ resp.status = 200) =>
           LET e == Bearer(resp.hdr)
               got == resp.body.history
               mine == {i \in 1..Len(history) : history[i].user_email = e}
           IN  /\ ValidBearer(resp.hdr)
               /\ Len(got) = Cardinality(mine)
               /\ \A i \in mine : \E k \in 1..Len(got) :
                      got[k] = [history[i] EXCEPT !._id = IdStr(history[i]._id)]
               /\ \A k \in 1..Len(got) : got[k].user_email = e
               /\ \A k \in 1..(Len(got) - 1) : got[k].timestamp >= got[k + 1].timestamp
    /\ (resp.op = "generate" /\ resp.status = 200) =>
           /\ ValidBearer(resp.hdr)
           /\ history[Len(history)].user_email = Bearer(resp.hdr)
           /\ history[Len(history)].timestamp = now

\* a caller got its two entries of different age while another user's entry exists
C10_Witness ==
    /\ resp.op = "history"
    /\ resp.status = 200
    /\ Len(resp.body.history) = 2
    /\ resp.body.history[1].timestamp > resp.body.history[2].timestamp
    /\ \E i \in 1..Len(history) : history[i].user_email # Bearer(resp.hdr)

\* ------------------------------------------------- C6: LLM replies
\* the reply is a text that does not parse as JSON once a fence is dropped
NotJson(reply) == reply # LlmDown /\ json_loads(Unfence(reply)) = ParseError

Degraded(text) == [tagline |-> <<>>, analogy |-> text, mapping |-> <<>>, limitations |-> <<>>]

\* C6 as stated: a reply that is not JSON never fails the request; /generate
\* answers 200 with the text in 'analogy' and the other fields empty, and a
\* quiz, in /generate and in /quiz, is answered 200 with no questions.
C6_AsStated ==
    /\ (resp.op = "generate" /\ Len(resp.llm) = 2 /\ LlmDown \notin Range(resp.llm)) =>
           /\ NotJson(resp.llm[1]) =>
                  resp.status = 200 /\ resp.body.result = Degraded(Unfence(resp.llm[1]))
           /\ NotJson(resp.llm[2]) =>
                  resp.status = 200 /\ resp.body.quiz.v.questions = <<>>
    /\ (resp.op = "quiz" /\ Len(resp.llm) = 1 /\ NotJson(resp.llm[1])) =>
           resp.status = 200 /\ resp.body.v.questions = <<>>

\* the part of C6 that /generate keeps
C6_GenerateDegrades ==
    (resp.op = "generate" /\ Len(resp.llm) = 2 /\ LlmDown \notin Range(resp.llm)) =>
        /\ resp.status = 200
        /\ NotJson(resp.llm[1]) => resp.body.result = Degraded(Unfence(resp.llm[1]))
        /\ NotJson(resp.llm[2]) => resp.body.quiz.v.questions = <<>>

\* ------------------------------------------------- C9: end to end
\* the script's answer to a step
Answer(step) == script.log[CHOOSE k \in 1..Len(script.log) : script.log[k].op = step]
Answered(step) == \E k \in 1..Len(script.log) : script.log[k].op = step
\* the script's token had not expired when the step was answered
Fresh(step) == Answer(step).at \div TicksPerSecond <= script.token.claims.exp

AliceEntries == {i \in 1..Len(history) : history[i].user_email = Alice}

\* C9: from a store without the email, the signup is answered 200 and the
\* login with the same credentials gets a token; with that token, while it has
\* not expired, /generate of a concept that is not blank, the LLM responding,
\* is answered 200 and adds exactly one entry of that owner, which GET /history
\* then shows alone; the delete of its id is answered 200 and GET /history is
\* then empty. A /generate that ends in an error adds no entry.
C9_EndToEnd ==
    /\ Answered("signup") =>
           /\ Answer("signup").status = 200
           /\ find_one(users, Alice) # NoneVal
    /\ Answered("login") =>
           /\ Answer("login").status = 200
           /\ script.token \in issued
           /\ script.token.claims.email = Alice
    /\ Answered("generate") =>
           /\ (Answer("generate").fit /\ Fresh("generate")) => Answer("generate").status = 200
           /\ ~Answered("delete") =>
                  Cardinality(AliceEntries) = IF Answer("generate").status = 200 THEN 1 ELSE 0
    /\ (Answered("history") /\ Fresh("history")) =>
           /\ Answer("history").status = 200
           /\ Answer("history").n = IF Answer("generate").status = 200 THEN 1 ELSE 0
    /\ (Answered("delete") /\ Fresh("delete")) =>
           /\ Answer("delete").status = 200
           /\ AliceEntries = {}
    /\ (Answered("history2") /\ Fresh("history2")) =>
           /\ Answer("history2").status = 200
           /\ Answer("history2").n = 0

\* the script ran to its end with every answer 200, while another user's entry is stored
C9_Witness ==
    /\ script.pc = "done"
    /\ Len(script.log) = 6
    /\ \A k \in 1..6 : script.log[k].status = 200
    /\ \E i \in 1..Len(history) : history[i].user_email = Bob

=============================================================================
